---- MODULE Spec2Model ----
(***************************************************************************)
(* ScrollableRegion (src/view/scrollable_region.rs): a fixed-height window *)
(* over line-based content.  The region is two usize fields, height and    *)
(* line_offset; every public method is one action of the model.            *)
(*                                                                         *)
(* usize is modelled at a reduced width of UsizeBits bits.  The unchecked  *)
(* operators + and - of the source overflow as rustc defines it: a panic   *)
(* when the build has overflow checks (debug profile), two's complement    *)
(* wrapping when it has not (release profile).  The profile is chosen in   *)
(* Init and both are explored.                                             *)
(***************************************************************************)
EXTENDS Integers, FiniteSets

VARIABLES
    height,           \* ScrollableRegion.height
    line_offset,      \* ScrollableRegion.line_offset
    overflow_checks,  \* TRUE: + and - panic on overflow; FALSE: they wrap
    call,             \* the method called last ("new" after construction)
    arg,              \* its argument (0 when it takes none)
    before,           \* line_offset when that call was made
    fault,            \* the arithmetic overflows that call ran into
    result,           \* what that call returned
    prev_call,        \* the method called before that one ("none" if none)
    same_arg          \* TRUE when both calls were given the same argument

vars == <<height, line_offset, overflow_checks, call, arg, before, fault, result,
          prev_call, same_arg>>

----------------------------------------------------------------------------
(* Bounds of the model. *)

UsizeBits == 5

MaxSmall == 2

Modulus == 2 ^ UsizeBits

MaxUsize == Modulus - 1

Usize == 0 .. MaxUsize

\* Arguments and heights are taken near both ends of the usize range.
Inputs == (0 .. MaxSmall) \cup {MaxUsize - 1, MaxUsize}

\* The region and the arguments of the unit tests of the source.
ScenarioHeight == 20

ScenarioInputs == {0, 5, 10, 15, 20, 30}

----------------------------------------------------------------------------
(* usize arithmetic. *)

wrapping_add(a, b) == (a + b) % Modulus

add_overflows(a, b) == a + b > MaxUsize

wrapping_sub(a, b) == (a - b + Modulus) % Modulus

sub_overflows(a, b) == a < b

None == [some |-> FALSE]

Some(v) == [some |-> TRUE, value |-> v]

checked_sub(a, b) == IF a >= b THEN Some(a - b) ELSE None

----------------------------------------------------------------------------
(* Values returned by the methods. *)

AboveRegion == [kind |-> "AboveRegion"]

Visible(n) == [kind |-> "Visible", index |-> n]

BelowRegion == [kind |-> "BelowRegion"]

line_range(s, e) == [kind |-> "LineRange", start |-> s, end |-> e]

Unit == [kind |-> "unit"]

Panic == [kind |-> "panic"]

\* What a method hands back to the action: the new line_offset, the value
\* returned and the overflows met on the way.
Outcome(o, r, f) == [line_offset |-> o, result |-> r, fault |-> f]

Faults(cond, name) == IF cond THEN {name} ELSE {}

----------------------------------------------------------------------------
(* The methods, as functions of the region's fields. *)

\* Faulty variants of visible_range: the end without the offset, and the end
\* without the height.
visible_range_end_is_height(h, o) == line_range(o, h)

visible_range_end_is_offset(h, o) == line_range(o, o)

\* The range the method computes when its addition does not panic.
visible_range(h, o) == line_range(o, wrapping_add(h, o))

visible_range_call(h, o, checks) ==
    LET f == Faults(add_overflows(h, o), "add_overflow")
    IN  IF checks /\ f # {}
        THEN Outcome(o, Panic, f)
        ELSE Outcome(o, visible_range(h, o), f)

\* Faulty variants of scroll_into_view.  The source stores line in the upward
\* branch and line - height + 1 in the downward one; a variant stores
\* line + up and line - height + down.
scroll_into_view_variant(h, o, line, checks, up, down) ==
    LET vr == visible_range_call(h, o, checks)
        range == vr.result
    IN  IF range = Panic
        THEN vr
        ELSE IF line < range.start
        THEN Outcome(wrapping_add(line, up), Unit, vr.fault)
        ELSE IF line >= range.end
        THEN Outcome(wrapping_add(wrapping_sub(line, h), down), Unit, vr.fault)
        ELSE Outcome(o, Unit, vr.fault)

\* line - height: the line ends one row below the region.
scroll_into_view_no_plus_one(h, o, line, checks) ==
    scroll_into_view_variant(h, o, line, checks, 0, 0)

\* line - height + height: the line ends on the top row.
scroll_into_view_to_top(h, o, line, checks) ==
    scroll_into_view_variant(h, o, line, checks, 0, h)

\* line + 1 in the upward branch.
scroll_into_view_up_plus_one(h, o, line, checks) ==
    scroll_into_view_variant(h, o, line, checks, 1, 1)

\* line - height + 2.
scroll_into_view_plus_two(h, o, line, checks) ==
    scroll_into_view_variant(h, o, line, checks, 0, 2)

scroll_into_view(h, o, line, checks) ==
    LET vr == visible_range_call(h, o, checks)
        range == vr.result
    IN  IF range = Panic
        THEN vr
        ELSE IF line < range.start
        THEN Outcome(line, Unit, vr.fault)
        ELSE IF line >= range.end
        THEN LET f2 == Faults(sub_overflows(line, h), "sub_overflow")
                 diff == wrapping_sub(line, h)
                 f3 == Faults(add_overflows(diff, 1), "add_overflow")
             IN  IF checks /\ f2 # {}
                 THEN Outcome(o, Panic, f2)
                 ELSE IF checks /\ f3 # {}
                 THEN Outcome(o, Panic, f3)
                 ELSE Outcome(wrapping_add(diff, 1), Unit, vr.fault \cup f2 \cup f3)
        ELSE Outcome(o, Unit, vr.fault)

\* Faulty variants of relative_position: > for >=, and the absolute line for
\* the relative one.
relative_position_gt(h, o, line) ==
    LET d == checked_sub(line, o)
    IN  IF d.some
        THEN IF d.value > h THEN BelowRegion ELSE Visible(d.value)
        ELSE AboveRegion

relative_position_absolute(h, o, line) ==
    LET d == checked_sub(line, o)
    IN  IF d.some
        THEN IF d.value >= h THEN BelowRegion ELSE Visible(line)
        ELSE AboveRegion

relative_position(h, o, line) ==
    LET d == checked_sub(line, o)
    IN  IF d.some
        THEN IF d.value >= h THEN BelowRegion ELSE Visible(d.value)
        ELSE AboveRegion

\* Faulty variant of scroll_up: a wrapping subtraction.
scroll_up_wrapping(o, amount) == wrapping_sub(o, amount)

scroll_up(o, amount) ==
    LET d == checked_sub(o, amount)
    IN  IF d.some THEN d.value ELSE 0

\* Faulty variant of scroll_down: = for +=.
scroll_down_assigns(o, amount, checks) == Outcome(amount, Unit, {})

scroll_down(o, amount, checks) ==
    LET f == Faults(add_overflows(o, amount), "add_overflow")
    IN  IF checks /\ f # {}
        THEN Outcome(o, Panic, f)
        ELSE Outcome(wrapping_add(o, amount), Unit, f)

----------------------------------------------------------------------------
(* State machine. *)

\* new(height): the region after construction.
new(h) ==
    /\ height = h
    /\ line_offset = 0
    /\ call = "new"
    /\ arg = h
    /\ before = 0
    /\ fault = {}
    /\ result = Unit
    /\ prev_call = "none"
    /\ same_arg = FALSE

Init ==
    /\ overflow_checks \in BOOLEAN
    /\ \E h \in Inputs : new(h)

InitE ==
    /\ overflow_checks \in BOOLEAN
    /\ new(ScenarioHeight)

\* A panic unwinds out of the region's owner: no call follows it.
Panicked == result = Panic

\* One call of method c with argument a and outcome out.
Call(c, a, out) ==
    /\ call' = c
    /\ arg' = a
    /\ before' = line_offset
    /\ prev_call' = call
    /\ same_arg' = (arg = a)
    /\ line_offset' = out.line_offset
    /\ result' = out.result
    /\ fault' = out.fault
    /\ UNCHANGED <<height, overflow_checks>>

VisibleRange ==
    /\ ~Panicked
    /\ Call("visible_range", 0,
            visible_range_call(height, line_offset, overflow_checks))

ScrollIntoView(line) ==
    /\ ~Panicked
    /\ Call("scroll_into_view", line,
            scroll_into_view(height, line_offset, line, overflow_checks))

RelativePosition(line) ==
    /\ ~Panicked
    /\ Call("relative_position", line,
            Outcome(line_offset, relative_position(height, line_offset, line), {}))

ScrollUp(amount) ==
    /\ ~Panicked
    /\ Call("scroll_up", amount,
            Outcome(scroll_up(line_offset, amount), Unit, {}))

ScrollDown(amount) ==
    /\ ~Panicked
    /\ Call("scroll_down", amount,
            scroll_down(line_offset, amount, overflow_checks))

Step(S) ==
    \/ VisibleRange
    \/ \E line \in S : ScrollIntoView(line)
    \/ \E line \in S : RelativePosition(line)
    \/ \E amount \in S : ScrollUp(amount)
    \/ \E amount \in S : ScrollDown(amount)

Next == Step(Inputs)

NextE == Step(ScenarioInputs)

Spec == Init /\ [][Next]_vars

SpecE == InitE /\ [][NextE]_vars

\* The fields of the region are usize values.
TypeOK ==
    /\ height \in Usize
    /\ line_offset \in Usize
    /\ overflow_checks \in BOOLEAN
    /\ before \in Usize
    /\ arg \in Usize
    /\ fault \subseteq {"add_overflow", "sub_overflow"}

----------------------------------------------------------------------------
(* Properties. *)

\* The range as the region would return it now.
CurrentRange == visible_range_call(height, line_offset, overflow_checks).result

\* What relative_position(line) would return now.
Position(line) == relative_position(height, line_offset, line)

\* line_offset + height is representable in usize.
Fits(o) == o + height <= MaxUsize

ScrollIntoViewReturned == call = "scroll_into_view" /\ ~Panicked

SecondScrollIntoView ==
    call = "scroll_into_view" /\ prev_call = "scroll_into_view" /\ same_arg

C6_RelativePosition ==
    [][call' = "relative_position" =>
          /\ height' = height
          /\ line_offset' = line_offset
          /\ result'.kind \in {"AboveRegion", "Visible", "BelowRegion"}
          /\ result' = AboveRegion <=> arg' < line_offset
          /\ result' = BelowRegion <=> arg' >= line_offset + height
          /\ result' = Visible(arg' - line_offset) <=>
                (line_offset <= arg' /\ arg' < line_offset + height)
          /\ result'.kind = "Visible" =>
                result' = Visible(arg' - line_offset) /\ result'.index < height
      ]_vars

C6_Witness ==
    /\ call = "relative_position"
    /\ line_offset >= 1
    /\ height >= 2
    /\ arg = line_offset + height - 1
    /\ result = Visible(height - 1)

FreshThenScrolledTo30 ==
    /\ height = ScenarioHeight
    /\ call = "scroll_into_view"
    /\ arg = 30
    /\ before = 0
    /\ prev_call = "new"
    /\ ~Panicked

\* C7 as stated: from a fresh region of height 20, after scroll_into_view(30),
\* relative_position(15) returns AboveRegion and relative_position(30)
\* returns Visible(19).
C7_AsStated ==
    [][FreshThenScrolledTo30 /\ call' = "relative_position" =>
          /\ arg' = 15 => result' = AboveRegion
          /\ arg' = 30 => result' = Visible(19)
      ]_vars

\* C7 amended: from a fresh region of height 20, after scroll_into_view(30),
\* relative_position(15) returns Visible(4) and relative_position(30) returns
\* Visible(19).
C7_ScenarioE ==
    [][FreshThenScrolledTo30 /\ call' = "relative_position" =>
          /\ line_offset = 11
          /\ arg' = 15 => result' = Visible(4)
          /\ arg' = 30 => result' = Visible(19)
      ]_vars

C7_Witness ==
    /\ height = ScenarioHeight
    /\ call = "relative_position"
    /\ prev_call = "scroll_into_view"
    /\ arg = 15
    /\ line_offset = 11
    /\ result = Visible(4)

\* C8: scroll_up(amount) sets line_offset to line_offset - amount when
\* amount <= line_offset and to 0 when amount > line_offset, and leaves
\* height unchanged; line_offset never wraps around to a large value, and a
\* fresh region stays at visible_range() = (0, height).
C8_ScrollUp ==
    [][call' = "scroll_up" =>
          /\ height' = height
          /\ result' = Unit
          /\ arg' <= line_offset => line_offset' = line_offset - arg'
          /\ arg' > line_offset => line_offset' = 0
          /\ line_offset' >= 0
          /\ line_offset' <= line_offset
          /\ call = "new" =>
                visible_range(height', line_offset') = line_range(0, height)
      ]_vars

C8_Witness ==
    /\ call = "scroll_up"
    /\ before >= 1
    /\ arg > before
    /\ line_offset = 0

\* C9: when line_offset + amount does not overflow, scroll_down(amount)
\* increases line_offset by exactly amount; scroll_down(amount) followed by
\* scroll_up(amount) restores line_offset whenever amount <= the line_offset
\* reached after the scroll_down.
C9_ScrollDown ==
    [][/\ call' = "scroll_down" /\ line_offset + arg' <= MaxUsize =>
              /\ line_offset' = line_offset + arg'
              /\ height' = height
              /\ result' = Unit
       /\ /\ call = "scroll_down"
          /\ ~Panicked
          /\ call' = "scroll_up"
          /\ arg' = arg
          /\ arg <= line_offset
          => line_offset' = before
      ]_vars

C9_Witness ==
    /\ call = "scroll_up"
    /\ prev_call = "scroll_down"
    /\ same_arg
    /\ arg >= 1
    /\ line_offset >= 1
    /\ before = line_offset + arg

\* C10: in a state where line_offset + height does not overflow, whenever
\* scroll_into_view(line) takes the branch line >= visible_range().end(),
\* line + 1 >= height, the subtraction does not underflow, and the new
\* line_offset is >= 1 when height >= 1.
C10_NoUnderflow ==
    call = "scroll_into_view" /\ Fits(before) =>
        /\ "sub_overflow" \notin fault
        /\ arg >= before + height =>
              /\ arg + 1 >= height
              /\ arg - height + 1 >= 0
              /\ height >= 1 =>
                    /\ ~Panicked
                    /\ line_offset = arg - height + 1
                    /\ line_offset >= 1

C10_Witness ==
    /\ ScrollIntoViewReturned
    /\ height >= 1
    /\ before = 0
    /\ arg = height
    /\ line_offset = 1

====
